---------------------------- MODULE Spec2Model ----------------------------
(***************************************************************************)
(* Model of the propositional-logic engine of logical_analyzer:            *)
(* LogicParser (src/logic_parser.py), TruthTableGenerator                  *)
(* (src/truth_table.py) and ExpressionSimplifier (src/simplifier.py).      *)
(*                                                                         *)
(* A text is a sequence of characters; a character is a one-character      *)
(* string, except the six Unicode operator symbols, which are written by   *)
(* their code points: "u00AC" is the negation sign, "u2227" the logical    *)
(* and, "u2228" the logical or, "u2192" the rightwards arrow, "u2194" the  *)
(* left right arrow and "u2295" the circled plus.  A token is a sequence   *)
(* of characters too.                                                      *)
(***************************************************************************)
EXTENDS Integers, Sequences, FiniteSets, TLC

VARIABLES expression, pc, validation, variable_values, evaluation, table, summary,
          current_expr, steps, changed, iteration

vars == <<expression, pc, validation, variable_values, evaluation, table, summary,
          current_expr, steps, changed, iteration>>

---------------------------------------------------------------------------
(* Characters *)

NotSym == "u00AC"
AndSym == "u2227"
OrSym  == "u2228"
ImpSym == "u2192"
IffSym == "u2194"
XorSym == "u2295"

LowerLetters ==
  <<"a","b","c","d","e","f","g","h","i","j","k","l","m",
    "n","o","p","q","r","s","t","u","v","w","x","y","z">>

UpperLetters ==
  <<"A","B","C","D","E","F","G","H","I","J","K","L","M",
    "N","O","P","Q","R","S","T","U","V","W","X","Y","Z">>

Digits == {"0","1","2","3","4","5","6","7","8","9"}

Range(s) == {s[i] : i \in DOMAIN s}

IsLower(c) == c \in Range(LowerLetters)
IsUpper(c) == c \in Range(UpperLetters)
IsAlnum(c) == IsLower(c) \/ IsUpper(c) \/ c \in Digits
IsSpace(c) == c = " "

(* str.upper() on one character: only a-z change *)
UpperChar(c) ==
  IF IsLower(c)
    THEN UpperLetters[CHOOSE i \in DOMAIN LowerLetters : LowerLetters[i] = c]
    ELSE c

upper(s) == [i \in DOMAIN s |-> UpperChar(s[i])]

(* str.strip() *)
RECURSIVE lstrip(_)
lstrip(s) == IF s # <<>> /\ IsSpace(Head(s)) THEN lstrip(Tail(s)) ELSE s

RECURSIVE rstrip(_)
rstrip(s) ==
  IF s # <<>> /\ IsSpace(s[Len(s)]) THEN rstrip(SubSeq(s, 1, Len(s) - 1)) ELSE s

strip(s) == rstrip(lstrip(s))

StartsWith(s, p) == Len(p) <= Len(s) /\ SubSeq(s, 1, Len(p)) = p

(* str.replace(old, new): leftmost, non-overlapping occurrences, old
   non-empty; the text up to the first occurrence is kept, the occurrence
   replaced, and the rest treated likewise *)
RECURSIVE replace(_, _, _)
replace(s, old, new) ==
  LET places == { i \in 1..(Len(s) - Len(old) + 1) : SubSeq(s, i, i + Len(old) - 1) = old }
  IN  IF places = {} THEN s
      ELSE LET first == CHOOSE i \in places : \A j \in places : i <= j
           IN  SubSeq(s, 1, first - 1) \o new
                 \o replace(SubSeq(s, first + Len(old), Len(s)), old, new)

---------------------------------------------------------------------------
(* LogicParser.__init__ *)

NegationOps == { <<NotSym>>, <<"~">>, <<"!">> }

operators ==
  NegationOps \cup
  { <<AndSym>>, <<"&">>, <<"&","&">>, <<"A","N","D">>,
    <<OrSym>>, <<"|">>, <<"|","|">>, <<"O","R">>,
    <<ImpSym>>, <<"-",">">>, <<"=",">">>, <<"I","M","P">>,
    <<IffSym>>, <<"<","-",">">>, <<"<","=",">">>, <<"X","N","O","R">>,
    <<XorSym>>, <<"^">>, <<"X","O","R">>,
    <<"N","A","N","D">>, <<"N","O","R">> }

precedence_table(token) ==
  CASE token \in NegationOps -> 4
    [] token \in { <<AndSym>>, <<"&">>, <<"&","&">>, <<"A","N","D">> } -> 3
    [] token \in { <<OrSym>>, <<"|">>, <<"|","|">>, <<"O","R">> } -> 2
    [] token \in { <<ImpSym>>, <<"-",">">>, <<"=",">">>, <<"I","M","P">> } -> 1
    [] token \in { <<IffSym>>, <<"<","-",">">>, <<"<","=",">">>, <<"X","N","O","R">> } -> 1
    [] token \in { <<XorSym>>, <<"^">>, <<"X","O","R">> } -> 2
    [] token = <<"N","A","N","D">> -> 3
    [] token = <<"N","O","R">> -> 2
    [] OTHER -> 0

(* the table with XOR moved up to the tier of AND *)
operator_precedence_xor_with_and(token) ==
  IF token \in { <<XorSym>>, <<"^">>, <<"X","O","R">> } THEN 3 ELSE precedence_table(token)

(* self.operator_precedence.get(token, 0) *)
operator_precedence(token) == precedence_table(token)

---------------------------------------------------------------------------
(* LogicParser._tokenize *)

(* the replacements dict, in insertion order *)
replacements ==
  << << <<"&","&">>,                    <<" ",AndSym," ">> >>,
     << <<" ","A","N","D"," ">>,        <<" ",AndSym," ">> >>,
     << <<"|","|">>,                    <<" ",OrSym," ">> >>,
     << <<" ","O","R"," ">>,            <<" ",OrSym," ">> >>,
     << <<"-",">">>,                    <<" ",ImpSym," ">> >>,
     << <<"=",">">>,                    <<" ",ImpSym," ">> >>,
     << <<" ","I","M","P"," ">>,        <<" ",ImpSym," ">> >>,
     << <<"<","-",">">>,                <<" ",IffSym," ">> >>,
     << <<"<","=",">">>,                <<" ",IffSym," ">> >>,
     << <<" ","X","N","O","R"," ">>,    <<" ",IffSym," ">> >>,
     << <<" ","X","O","R"," ">>,        <<" ",XorSym," ">> >>,
     << <<" ","N","A","N","D"," ">>,    <<" ","N","A","N","D"," ">> >>,
     << <<" ","N","O","R"," ">>,        <<" ","N","O","R"," ">> >> >>

(* for old, new in replacements.items(): expr = expr.replace(old, new) *)
RECURSIVE apply_replacements(_, _, _)
apply_replacements(s, table_, i) ==
  IF i > Len(table_) THEN s
  ELSE apply_replacements(replace(s, table_[i][1], table_[i][2]), table_, i + 1)

TokenSymbols == { NotSym, "~", "!", AndSym, OrSym, ImpSym, IffSym, XorSym, "(", ")" }

(* length of the maximal alphanumeric run at the head of s *)
RECURSIVE alnum_run(_)
alnum_run(s) ==
  IF s # <<>> /\ IsAlnum(Head(s)) THEN 1 + alnum_run(Tail(s)) ELSE 0

(* re.findall(r'[A-Za-z0-9]+|[symbols()]', expr) *)
RECURSIVE findall_tokens(_)
findall_tokens(s) ==
  IF s = <<>> THEN <<>>
  ELSE IF IsAlnum(Head(s))
    THEN LET n == alnum_run(s)
         IN  <<SubSeq(s, 1, n)>> \o findall_tokens(SubSeq(s, n + 1, Len(s)))
  ELSE IF Head(s) \in TokenSymbols
    THEN << <<Head(s)>> >> \o findall_tokens(Tail(s))
  ELSE findall_tokens(Tail(s))

tokenize(text) ==
  LET expr == apply_replacements(upper(text), replacements, 1)
  IN  SelectSeq(findall_tokens(expr), LAMBDA token : strip(token) # <<>>)

(* LogicParser._is_operator *)
is_operator(token) ==
  upper(token) \in { upper(op) : op \in operators } \/ token \in { <<"(">>, <<")">> }

(* variable test that accepts a word of letters of any length *)
is_variable_any_length(token) ==
  /\ token # <<>> /\ \A i \in DOMAIN token : IsLower(token[i]) \/ IsUpper(token[i])
  /\ IsUpper(token[1])

(* LogicParser._is_variable: isalpha, one character, isupper *)
is_variable(token) ==
  /\ token # <<>> /\ \A i \in DOMAIN token : IsLower(token[i]) \/ IsUpper(token[i])
  /\ Len(token) = 1
  /\ IsUpper(token[1])

(* str.isdigit *)
isdigit(token) == token # <<>> /\ \A i \in DOMAIN token : token[i] \in Digits

---------------------------------------------------------------------------
(* LogicParser.validate_expression and its checks *)

(* LogicParser._check_balanced_parentheses: depth is len(stack) *)
RECURSIVE balanced_from(_, _)
balanced_from(s, depth) ==
  IF s = <<>> THEN depth = 0
  ELSE IF Head(s) = "(" THEN balanced_from(Tail(s), depth + 1)
  ELSE IF Head(s) = ")"
    THEN IF depth = 0 THEN FALSE ELSE balanced_from(Tail(s), depth - 1)
  ELSE balanced_from(Tail(s), depth)

check_balanced_parentheses(text) == balanced_from(text, 0)

AllowedSymbols ==
  { NotSym, "~", "!", AndSym, "&", OrSym, "|", ImpSym, IffSym, XorSym,
    "<", ">", "=", "-", "^", "(", ")" }

(* LogicParser._find_invalid_characters: the set of offending characters *)
find_invalid_characters(text) ==
  { <<text[i]>> : i \in { j \in DOMAIN text :
        ~(IsAlnum(text[j]) \/ IsSpace(text[j]) \/ text[j] \in AllowedSymbols) } }

NoError == [error |-> FALSE, message |-> "", detail |-> {}]

(* LogicParser._check_operator_placement: the loop over enumerate(tokens) *)
RECURSIVE operator_placement_from(_, _)
operator_placement_from(tokens, i) ==
  IF i > Len(tokens) THEN NoError
  ELSE LET token == tokens[i] IN
    IF is_operator(token) /\ token \notin NegationOps /\ (i = 1 \/ i = Len(tokens))
      THEN [error |-> TRUE, message |-> "Binary operator at invalid position",
            detail |-> {token}]
    ELSE IF is_operator(token) /\ token \in NegationOps /\ i = Len(tokens)
      THEN [error |-> TRUE, message |-> "Unary operator at end of expression",
            detail |-> {token}]
    ELSE operator_placement_from(tokens, i + 1)

check_operator_placement(text) == operator_placement_from(tokenize(text), 1)

ConstantNames ==
  { <<"0">>, <<"1">>, <<"t","r","u","e">>, <<"f","a","l","s","e">>,
    <<"T","R","U","E">>, <<"F","A","L","S","E">> }

(* LogicParser._check_variable_names *)
RECURSIVE variable_names_from(_, _)
variable_names_from(tokens, i) ==
  IF i > Len(tokens) THEN NoError
  ELSE LET token == tokens[i] IN
    IF /\ is_variable(token) /\ Len(token) > 1 /\ ~isdigit(token)
       /\ token \notin operators /\ token \notin ConstantNames
      THEN [error |-> TRUE, message |-> "Invalid variable/operator name",
            detail |-> {token}]
    ELSE variable_names_from(tokens, i + 1)

check_variable_names(text) == variable_names_from(tokenize(text), 1)

Invalid(message, detail) == [is_valid |-> FALSE, message |-> message, detail |-> detail]

validate_expression(text) ==
  IF text = <<>> \/ strip(text) = <<>>
    THEN Invalid("Expression cannot be empty", {})
  ELSE LET expr == strip(text) IN
    IF ~check_balanced_parentheses(expr)
      THEN Invalid("Unbalanced parentheses", {})
    ELSE IF find_invalid_characters(expr) # {}
      THEN Invalid("Invalid characters", find_invalid_characters(expr))
    ELSE LET op_error == check_operator_placement(expr) IN
      IF op_error.error THEN Invalid(op_error.message, op_error.detail)
      ELSE LET var_error == check_variable_names(expr) IN
        IF var_error.error THEN Invalid(var_error.message, var_error.detail)
        ELSE [is_valid |-> TRUE, message |-> "Valid expression", detail |-> {}]

---------------------------------------------------------------------------
(* LogicParser.extract_variables: the set of names; a name is the one
   character of a variable token *)

extract_variables(text) ==
  LET tokens == tokenize(text)
  IN  { UpperChar(tokens[i][1]) : i \in { j \in DOMAIN tokens : is_variable(tokens[j]) } }

---------------------------------------------------------------------------
(* LogicParser.to_postfix.  The operator stack is a sequence, top last.
   raised is "IndexError" when stack.pop() meets an empty list. *)

Top(stack) == stack[Len(stack)]
Pop(stack) == SubSeq(stack, 1, Len(stack) - 1)

IsOperand(token) == is_variable(token) \/ token \in { <<"0">>, <<"1">> }

(* while stack and stack[-1] != '(': output.append(stack.pop()) *)
RECURSIVE pop_to_paren(_, _)
pop_to_paren(output, stack) ==
  IF stack # <<>> /\ Top(stack) # <<"(">>
    THEN pop_to_paren(Append(output, Top(stack)), Pop(stack))
    ELSE [output |-> output, stack |-> stack]

(* while stack and stack[-1] != '(' and prec(token) <= prec(stack[-1]) *)
RECURSIVE pop_higher(_, _, _)
pop_higher(token, output, stack) ==
  IF /\ stack # <<>> /\ Top(stack) # <<"(">>
     /\ operator_precedence(token) <= operator_precedence(Top(stack))
    THEN pop_higher(token, Append(output, Top(stack)), Pop(stack))
    ELSE [output |-> output, stack |-> stack]

(* while stack: output.append(stack.pop()) *)
RECURSIVE flush(_, _)
flush(output, stack) ==
  IF stack # <<>> THEN flush(Append(output, Top(stack)), Pop(stack)) ELSE output

RECURSIVE postfix_from(_, _, _, _)
postfix_from(tokens, i, output, stack) ==
  IF i > Len(tokens) THEN [raised |-> "none", output |-> flush(output, stack)]
  ELSE LET token == tokens[i] IN
    IF IsOperand(token)
      THEN postfix_from(tokens, i + 1, Append(output, token), stack)
    ELSE IF token = <<"(">>
      THEN postfix_from(tokens, i + 1, output, Append(stack, token))
    ELSE IF token = <<")">>
      THEN LET r == pop_to_paren(output, stack) IN
           IF r.stack = <<>>
             THEN [raised |-> "IndexError", output |-> r.output]
             ELSE postfix_from(tokens, i + 1, r.output, Pop(r.stack))
    ELSE LET r == pop_higher(token, output, stack) IN
         postfix_from(tokens, i + 1, r.output, Append(r.stack, token))

to_postfix(text) == postfix_from(tokenize(text), 1, <<>>, <<>>)

---------------------------------------------------------------------------
(* LogicParser.evaluate_expression *)

ValueError(message) == [kind |-> "ValueError", message |-> message]
Value(b) == [kind |-> "value", value |-> b]

(* _apply_operator with the operands of the implication exchanged *)
apply_operator_swapped(left, right, operator) ==
  LET op == upper(operator) IN
  IF op \in { <<AndSym>>, <<"&">>, <<"&","&">>, <<"A","N","D">> }
    THEN Value(left /\ right)
  ELSE IF op \in { <<OrSym>>, <<"|">>, <<"|","|">>, <<"O","R">> }
    THEN Value(left \/ right)
  ELSE IF op \in { <<ImpSym>>, <<"-",">">>, <<"=",">">>, <<"I","M","P">> }
    THEN Value((~right) \/ left)
  ELSE IF op \in { <<IffSym>>, <<"<","-",">">>, <<"<","=",">">>, <<"X","N","O","R">> }
    THEN Value(left = right)
  ELSE IF op \in { <<XorSym>>, <<"^">>, <<"X","O","R">> }
    THEN Value(left # right)
  ELSE IF op = <<"N","A","N","D">>
    THEN Value(~(left /\ right))
  ELSE IF op = <<"N","O","R">>
    THEN Value(~(left \/ right))
  ELSE ValueError("Unknown operator")

(* LogicParser._apply_operator *)
apply_operator(left, right, operator) ==
  LET op == upper(operator) IN
  IF op \in { <<AndSym>>, <<"&">>, <<"&","&">>, <<"A","N","D">> }
    THEN Value(left /\ right)
  ELSE IF op \in { <<OrSym>>, <<"|">>, <<"|","|">>, <<"O","R">> }
    THEN Value(left \/ right)
  ELSE IF op \in { <<ImpSym>>, <<"-",">">>, <<"=",">">>, <<"I","M","P">> }
    THEN Value((~left) \/ right)
  ELSE IF op \in { <<IffSym>>, <<"<","-",">">>, <<"<","=",">">>, <<"X","N","O","R">> }
    THEN Value(left = right)
  ELSE IF op \in { <<XorSym>>, <<"^">>, <<"X","O","R">> }
    THEN Value(left # right)
  ELSE IF op = <<"N","A","N","D">>
    THEN Value(~(left /\ right))
  ELSE IF op = <<"N","O","R">>
    THEN Value(~(left \/ right))
  ELSE ValueError("Unknown operator")

(* lookup that takes an unmapped name for true *)
get_default_true(values, name) == IF name \in DOMAIN values THEN values[name] ELSE TRUE

(* variable_values.get(name, False) *)
get(values, name) == IF name \in DOMAIN values THEN values[name] ELSE FALSE

(* operand value that looks a literal up in the assignment like a variable *)
operand_value_looked_up(token, values) == get(values, UpperChar(token[1]))

(* the value pushed for an operand token: a literal's own value, a variable's
   value in the assignment *)
operand_value(token, values) ==
  IF token \in { <<"0">>, <<"1">> }
    THEN token = <<"1">>
    ELSE get(values, UpperChar(token[1]))

(* the loop over the postfix tokens; the operand stack is a sequence, top last *)
RECURSIVE evaluate_from(_, _, _, _)
evaluate_from(postfix, i, stack, values) ==
  IF i > Len(postfix)
    THEN IF Len(stack) # 1 THEN ValueError("too many operands") ELSE Value(stack[1])
  ELSE LET token == postfix[i] IN
    IF IsOperand(token)
      THEN evaluate_from(postfix, i + 1, Append(stack, operand_value(token, values)), values)
    ELSE IF token \in NegationOps
      THEN IF stack = <<>>
             THEN ValueError("missing operand for negation")
             ELSE evaluate_from(postfix, i + 1, Append(Pop(stack), ~Top(stack)), values)
    ELSE IF Len(stack) < 2
      THEN ValueError("missing operands for operator")
    ELSE LET right == Top(stack)
             left  == Top(Pop(stack))
             r     == apply_operator(left, right, token)
         IN  IF r.kind # "value"
               THEN r
               ELSE evaluate_from(postfix, i + 1, Append(Pop(Pop(stack)), r.value), values)

evaluate_expression(text, values) ==
  LET postfix == to_postfix(text) IN
  IF postfix.raised # "none"
    THEN [kind |-> postfix.raised, message |-> "pop from empty list"]
    ELSE evaluate_from(postfix.output, 1, <<>>, values)

---------------------------------------------------------------------------
(* TruthTableGenerator *)

(* sorted(names): the names are single upper-case letters, which sort in
   alphabet order *)
sorted(names) == SelectSeq(UpperLetters, LAMBDA c : c \in names)

(* itertools.product([False, True], repeat=n): the last position varies fastest *)
RECURSIVE product(_)
(* product whose first position varies fastest *)
RECURSIVE product_first_fastest(_)
product_first_fastest(n) ==
  IF n = 0 THEN << <<>> >>
  ELSE LET shorter == product_first_fastest(n - 1)
       IN  [i \in 1..(2 * Len(shorter)) |-> <<i % 2 = 0>> \o shorter[(i + 1) \div 2]]

(* product that leaves out the last combination *)
product_short(n) ==
  IF n = 0 THEN << <<>> >>
  ELSE LET shorter == product(n - 1)
       IN  [i \in 1..(2 * Len(shorter) - 1) |-> Append(shorter[(i + 1) \div 2], i % 2 = 0)]

product(n) ==
  IF n = 0 THEN << <<>> >>
  ELSE LET shorter == product(n - 1)
       IN  [i \in 1..(2 * Len(shorter)) |-> Append(shorter[(i + 1) \div 2], i % 2 = 0)]

(* dict(zip(variables, combo)) *)
zip_dict(variables, combo) ==
  [name \in Range(variables) |->
     combo[CHOOSE i \in DOMAIN variables : variables[i] = name]]

(* TruthTableGenerator._generate_constant_truth_table *)
generate_constant_truth_table(text) ==
  LET result == evaluate_expression(text, <<>>) IN
  IF result.kind # "value"
    THEN [kind |-> "ValueError", message |-> "Error evaluating constant expression",
          cause |-> result.message]
    ELSE [kind |-> "table", table_data |-> << ("result" :> result.value) >>,
          variables |-> <<>>]

(* the loop over combinations: a row is the assignment with the key 'result' added *)
RECURSIVE rows_from(_, _, _, _, _)
rows_from(text, variables, combinations, i, table_data) ==
  IF i > Len(combinations)
    THEN [kind |-> "table", table_data |-> table_data, variables |-> variables]
  ELSE LET assignment == zip_dict(variables, combinations[i])
           result     == evaluate_expression(text, assignment)
       IN  IF result.kind # "value"
             THEN [kind |-> "ValueError", message |-> "Error evaluating expression",
                   cause |-> result.message]
             ELSE rows_from(text, variables, combinations, i + 1,
                            Append(table_data, assignment @@ ("result" :> result.value)))

(* generate_truth_table that builds the rows without validating first *)
generate_truth_table_unvalidated(text) ==
  LET variables == sorted(extract_variables(text)) IN
  IF variables = <<>>
    THEN generate_constant_truth_table(text)
    ELSE rows_from(text, variables, product(Len(variables)), 1, <<>>)

(* TruthTableGenerator.generate_truth_table *)
generate_truth_table(text) ==
  LET checked == validate_expression(text) IN
  IF ~checked.is_valid
    THEN [kind |-> "ValueError", message |-> "Invalid expression",
          cause |-> checked.message]
  ELSE LET variables == sorted(extract_variables(text)) IN
    IF variables = <<>>
      THEN generate_constant_truth_table(text)
      ELSE rows_from(text, variables, product(Len(variables)), 1, <<>>)

(* summary that calls a table a tautology as soon as one row is true *)
get_truth_table_summary_some_true(table_data, variables) ==
  IF table_data = <<>> THEN <<>>
  ELSE LET true_count  == Cardinality({ i \in DOMAIN table_data : table_data[i]["result"] })
           false_count == Len(table_data) - true_count
       IN  [total_rows       |-> Len(table_data),
            true_count       |-> true_count,
            false_count      |-> false_count,
            is_tautology     |-> true_count > 0,
            is_contradiction |-> false_count = Len(table_data),
            is_contingency   |-> true_count > 0 /\ false_count > 0]

(* TruthTableGenerator.get_truth_table_summary *)
get_truth_table_summary(table_data, variables) ==
  IF table_data = <<>> THEN <<>>
  ELSE LET true_count  == Cardinality({ i \in DOMAIN table_data : table_data[i]["result"] })
           false_count == Len(table_data) - true_count
       IN  [total_rows       |-> Len(table_data),
            true_count       |-> true_count,
            false_count      |-> false_count,
            is_tautology     |-> true_count = Len(table_data),
            is_contradiction |-> false_count = Len(table_data),
            is_contingency   |-> true_count > 0 /\ false_count > 0]

---------------------------------------------------------------------------
(* ExpressionSimplifier (src/simplifier.py) *)

(* self.rules, in insertion order: <<pattern, replacement>> *)
rules ==
  << << <<"A"," ",AndSym," ","1">>,
        <<"A">> >>,
     << <<"A"," ",OrSym," ","0">>,
        <<"A">> >>,
     << <<"A"," ",AndSym," ","0">>,
        <<"0">> >>,
     << <<"A"," ",OrSym," ","1">>,
        <<"1">> >>,
     << <<"A"," ",AndSym," ","A">>,
        <<"A">> >>,
     << <<"A"," ",OrSym," ","A">>,
        <<"A">> >>,
     << <<NotSym,NotSym,"A">>,
        <<"A">> >>,
     << <<"A"," ",AndSym," ",NotSym,"A">>,
        <<"0">> >>,
     << <<"A"," ",OrSym," ",NotSym,"A">>,
        <<"1">> >>,
     << <<"A"," ",AndSym," ","B">>,
        <<"B"," ",AndSym," ","A">> >>,
     << <<"A"," ",OrSym," ","B">>,
        <<"B"," ",OrSym," ","A">> >>,
     << <<"(","A"," ",AndSym," ","B",")"," ",AndSym," ","C">>,
        <<"A"," ",AndSym," ","(","B"," ",AndSym," ","C",")">> >>,
     << <<"(","A"," ",OrSym," ","B",")"," ",OrSym," ","C">>,
        <<"A"," ",OrSym," ","(","B"," ",OrSym," ","C",")">> >>,
     << <<"A"," ",AndSym," ","(","B"," ",OrSym," ","C",")">>,
        <<"(","A"," ",AndSym," ","B",")"," ",OrSym," ","(","A"," ",AndSym," ","C",")">> >>,
     << <<"A"," ",OrSym," ","(","B"," ",AndSym," ","C",")">>,
        <<"(","A"," ",OrSym," ","B",")"," ",AndSym," ","(","A"," ",OrSym," ","C",")">> >>,
     << <<NotSym,"(","A"," ",AndSym," ","B",")">>,
        <<NotSym,"A"," ",OrSym," ",NotSym,"B">> >>,
     << <<NotSym,"(","A"," ",OrSym," ","B",")">>,
        <<NotSym,"A"," ",AndSym," ",NotSym,"B">> >>,
     << <<"A"," ",AndSym," ","(","A"," ",OrSym," ","B",")">>,
        <<"A">> >>,
     << <<"A"," ",OrSym," ","(","A"," ",AndSym," ","B",")">>,
        <<"A">> >>,
     << <<"A"," ",ImpSym," ","B">>,
        <<NotSym,"A"," ",OrSym," ","B">> >>,
     << <<"A"," ",IffSym," ","B">>,
        <<"(","A"," ",ImpSym," ","B",")"," ",AndSym," ","(","B"," ",ImpSym," ","A",")">> >>,
     << <<"A"," ",XorSym," ","B">>,
        <<"(","A"," ",AndSym," ",NotSym,"B",")"," ",OrSym," ","(",NotSym,"A"," ",AndSym," ","B",")">> >> >>

(* the replacements dict of _normalize_expression, in insertion order *)
normalize_replacements ==
  << << <<"&","&">>, <<AndSym>> >>,
     << <<" ","A","N","D"," ">>, <<" ",AndSym," ">> >>,
     << <<"|","|">>, <<OrSym>> >>,
     << <<" ","O","R"," ">>, <<" ",OrSym," ">> >>,
     << <<"-",">">>, <<ImpSym>> >>,
     << <<"=",">">>, <<ImpSym>> >>,
     << <<"<","-",">">>, <<IffSym>> >>,
     << <<"<","=",">">>, <<IffSym>> >>,
     << <<"^">>, <<XorSym>> >>,
     << <<" ","X","O","R"," ">>, <<" ",XorSym," ">> >>,
     << <<"!">>, <<NotSym>> >>,
     << <<"~">>, <<NotSym>> >> >>

(* the operators list of _normalize_expression *)
normalize_operators == <<AndSym, OrSym, ImpSym, IffSym, XorSym, NotSym>>

(* the operators list of _cleanup_expression *)
cleanup_operators == <<AndSym, OrSym, ImpSym, IffSym, XorSym>>

(* replace(op, f' {op} ') for each op, as a table of replacements *)
spaces_around(ops) == [i \in DOMAIN ops |-> << <<ops[i]>>, <<" ", ops[i], " ">> >>]

(* replace(f' {op} ', op) for each op, as a table of replacements *)
spaces_dropped(ops) == [i \in DOMAIN ops |-> << <<" ", ops[i], " ">>, <<ops[i]>> >>]

(* re.sub(r'\s+', ' ', expr): every run of white space becomes one space,
   that is, a space that follows a space is dropped *)
collapse_whitespace(s) ==
  LET marked == [i \in DOMAIN s |-> <<s[i], IsSpace(s[i]) /\ i > 1 /\ IsSpace(s[i - 1])>>]
      kept   == SelectSeq(marked, LAMBDA m : ~m[2])
  IN  [i \in DOMAIN kept |-> IF IsSpace(kept[i][1]) THEN " " ELSE kept[i][1]]

(* ExpressionSimplifier._normalize_expression *)
normalize_expression(text) ==
  LET replaced == apply_replacements(upper(text), normalize_replacements, 1)
      spaced   == apply_replacements(replaced, spaces_around(normalize_operators), 1)
  IN  strip(collapse_whitespace(spaced))

(* pattern in text *)
Contains(s, p) == \E i \in 0..(Len(s) - Len(p)) : SubSeq(s, i + 1, i + Len(p)) = p

(* ExpressionSimplifier._apply_variable_rule *)
apply_variable_rule(text, pattern, replacement) ==
  IF Contains(text, pattern)
    THEN replace(text, pattern, replacement)
    ELSE text

(* ExpressionSimplifier._apply_rule *)
apply_rule(text, pattern, replacement) ==
  IF text = pattern
    THEN replacement
  ELSE IF "A" \in Range(pattern) \/ "B" \in Range(pattern) \/ "C" \in Range(pattern)
    THEN apply_variable_rule(text, pattern, replacement)
  ELSE text

(* re.sub(r'\(([A-Z01])\)', r'\1', expr): the parentheses of every
   '(X)', X an upper-case letter, 0 or 1, are dropped; two such matches never
   overlap *)
unwrap_single(s) ==
  LET starts(i) == /\ i >= 1 /\ i + 2 <= Len(s)
                   /\ s[i] = "("
                   /\ IsUpper(s[i + 1]) \/ s[i + 1] \in { "0", "1" }
                   /\ s[i + 2] = ")"
      marked == [i \in DOMAIN s |-> <<s[i], starts(i) \/ starts(i - 2)>>]
      kept   == SelectSeq(marked, LAMBDA m : ~m[2])
  IN  [i \in DOMAIN kept |-> kept[i][1]]

(* ExpressionSimplifier._is_balanced: count, after each character, is the
   number of '(' less the number of ')' so far; False as soon as it falls
   below zero, else count == 0 at the end *)
is_balanced(text) ==
  LET count(i) == Cardinality({ j \in 1..i : text[j] = "(" })
                    - Cardinality({ j \in 1..i : text[j] = ")" })
  IN  /\ \A i \in DOMAIN text : count(i) >= 0
      /\ count(Len(text)) = 0

(* ExpressionSimplifier._remove_redundant_parentheses *)
remove_redundant_parentheses(text) ==
  LET expr == unwrap_single(text) IN
  IF expr # <<>> /\ expr[1] = "(" /\ expr[Len(expr)] = ")"
    THEN LET inner == SubSeq(expr, 2, Len(expr) - 1)
         IN  IF is_balanced(inner) THEN inner ELSE expr
    ELSE expr

(* ExpressionSimplifier._cleanup_expression *)
cleanup_expression(text) ==
  LET collapsed == strip(collapse_whitespace(text))
      dropped   == apply_replacements(collapsed, spaces_dropped(cleanup_operators), 1)
      spaced    == apply_replacements(dropped, spaces_around(cleanup_operators), 1)
  IN  strip(collapse_whitespace(spaced))

(* rule search that never tries the first rule of the list *)
first_rule_after_first(expr, i) ==
  LET firing == { j \in i..Len(rules) :
                    j > 1 /\ apply_rule(expr, rules[j][1], rules[j][2]) # expr }
  IN  IF firing = {} THEN 0 ELSE CHOOSE j \in firing : \A l \in firing : j <= l

(* the place in rules of the first rule, from place i on, that changes the
   text; 0 when none does *)
first_rule_from(expr, i) ==
  LET firing == { j \in i..Len(rules) : apply_rule(expr, rules[j][1], rules[j][2]) # expr }
  IN  IF firing = {} THEN 0 ELSE CHOOSE j \in firing : \A l \in firing : j <= l

(* max_iterations of simplify *)
max_iterations == 20

(* loop test with the cap at two turns *)
loop_continues_two_turns(is_changed, count) == is_changed /\ count < 2

(* loop test that leaves out the cap on the iterations *)
loop_continues_uncapped(is_changed, count) == is_changed

(* while changed and iteration < max_iterations *)
loop_continues(is_changed, count) == is_changed /\ count < max_iterations

(* the entries of the steps list: the kind of entry, the rule's pattern and
   replacement for a rule application, and the text it shows *)
Step(entry, pattern, replacement, expr) ==
  [entry |-> entry, pattern |-> pattern, replacement |-> replacement, expr |-> expr]

(* one turn of the while loop on the expression and the steps so far: the
   first rule that changes the expression is applied, then redundant
   parentheses are removed; changed tells whether either did anything *)
loop_turn(expr, trace) ==
  LET place       == first_rule_from(expr, 1)
      after_rule  == IF place = 0 THEN expr
                     ELSE apply_rule(expr, rules[place][1], rules[place][2])
      rule_steps  == IF place = 0 THEN trace
                     ELSE Append(trace, Step("Applied", rules[place][1],
                                             rules[place][2], after_rule))
      after_paren == remove_redundant_parentheses(after_rule)
  IN  [current_expr |-> after_paren,
       steps        |-> IF after_paren # after_rule
                          THEN Append(rule_steps,
                                      Step("Removed redundant parentheses", <<>>, <<>>,
                                           after_paren))
                          ELSE rule_steps,
       changed      |-> (place # 0 \/ after_paren # after_rule)]

---------------------------------------------------------------------------
(* The texts handed to the engine *)

(* bounds *)
MaxOperands == 3
MaxLen == 5

(* the canonical symbol of each binary operator kind *)
CanonicalBinary ==
  { <<AndSym>>, <<OrSym>>, <<ImpSym>>, <<IffSym>>, <<XorSym>>,
    <<"N","A","N","D">>, <<"N","O","R">> }

BinarySpellings == operators \ NegationOps

(* operand i of a chain is the i-th letter, negated when negated = i *)
ChainOperand(i, negated) ==
  IF negated = i THEN <<NotSym, UpperLetters[i]>> ELSE <<UpperLetters[i]>>

(* 'A op1 B op2 C ...': k operands, one space on each side of an operator *)
RECURSIVE ChainText(_, _, _, _)
ChainText(i, k, ops, negated) ==
  IF i = k THEN ChainOperand(i, negated)
  ELSE ChainOperand(i, negated) \o <<" ">> \o ops[i] \o <<" ">>
         \o ChainText(i + 1, k, ops, negated)

Chains ==
  UNION { { ChainText(1, k, ops, negated) :
              ops \in [1..(k - 1) -> CanonicalBinary], negated \in 0..k } :
          k \in 1..MaxOperands }

PairOperands == { <<"A">>, <<"B">>, <<"a">>, <<"0">>, <<"1">> }

(* 'X spelling Y' for every spelling of a binary operator, with and without
   spaces around it *)
Pairs ==
  { x \o sep \o spelling \o sep \o y :
      x \in PairOperands, y \in PairOperands,
      spelling \in BinarySpellings, sep \in { <<>>, <<" ">> } }

(* the negation spellings before an operand *)
Negations == { spelling \o x : spelling \in NegationOps, x \in PairOperands }

StructuredTexts == Chains \cup Pairs \cup Negations

(* texts typed key by key *)
Keys == { "A", " ", "(", ")", NotSym, AndSym }

FreeTexts == UNION { [1..n -> Keys] : n \in 0..MaxLen }

---------------------------------------------------------------------------
(* The engine's operations.  pc is "ready" until one of them has run. *)

NoResult == [kind |-> "none"]

InitWith(texts) ==
  /\ expression \in texts
  /\ pc = "ready"
  /\ validation = NoResult
  /\ variable_values = <<>>
  /\ evaluation = NoResult
  /\ table = NoResult
  /\ summary = NoResult
  /\ current_expr = <<>>
  /\ steps = <<>>
  /\ changed = FALSE
  /\ iteration = 0

Init == InitWith(StructuredTexts)

InitFree == InitWith(FreeTexts)

(* parser.validate_expression(expression) *)
ValidateExpression ==
  /\ pc = "ready"
  /\ validation' = validate_expression(expression)
  /\ pc' = "validated"
  /\ UNCHANGED <<expression, variable_values, evaluation, table, summary>>
  /\ UNCHANGED <<current_expr, steps, changed, iteration>>

(* parser.evaluate_expression(expression, values), for an assignment of the
   expression's variables *)
EvaluateExpression ==
  /\ pc = "ready"
  /\ \E values \in [extract_variables(expression) -> BOOLEAN] :
       /\ variable_values' = values
       /\ evaluation' = evaluate_expression(expression, values)
  /\ pc' = "evaluated"
  /\ UNCHANGED <<expression, validation, table, summary>>
  /\ UNCHANGED <<current_expr, steps, changed, iteration>>

(* truth_table_gen.generate_truth_table(expression) *)
GenerateTruthTable ==
  /\ pc = "ready"
  /\ table' = generate_truth_table(expression)
  /\ pc' = "generated"
  /\ UNCHANGED <<expression, validation, variable_values, evaluation, summary>>
  /\ UNCHANGED <<current_expr, steps, changed, iteration>>

(* truth_table_gen.get_truth_table_summary(table_data, variables) *)
GetTruthTableSummary ==
  /\ pc = "generated"
  /\ table.kind = "table"
  /\ summary' = get_truth_table_summary(table.table_data, table.variables)
  /\ pc' = "summarised"
  /\ UNCHANGED <<expression, validation, variable_values, evaluation, table>>
  /\ UNCHANGED <<current_expr, steps, changed, iteration>>

Next ==
  \/ ValidateExpression
  \/ EvaluateExpression
  \/ GenerateTruthTable
  \/ GetTruthTableSummary

Spec == Init /\ [][Next]_vars

SpecFree == InitFree /\ [][Next]_vars

---------------------------------------------------------------------------
(* Vocabulary of the properties: operator kinds, their truth functions and
   the reading of a text as words separated by single spaces *)

KindOf(spelling) ==
  CASE spelling \in { <<AndSym>>, <<"&">>, <<"&","&">>, <<"A","N","D">> } -> "AND"
    [] spelling \in { <<OrSym>>, <<"|">>, <<"|","|">>, <<"O","R">> } -> "OR"
    [] spelling \in { <<ImpSym>>, <<"-",">">>, <<"=",">">>, <<"I","M","P">> } -> "IMPLIES"
    [] spelling \in { <<IffSym>>, <<"<","-",">">>, <<"<","=",">">>, <<"X","N","O","R">> } -> "IFF"
    [] spelling \in { <<XorSym>>, <<"^">>, <<"X","O","R">> } -> "XOR"
    [] spelling = <<"N","A","N","D">> -> "NAND"
    [] spelling = <<"N","O","R">> -> "NOR"

CanonicalOf(kind) ==
  CASE kind = "AND" -> <<AndSym>>
    [] kind = "OR" -> <<OrSym>>
    [] kind = "IMPLIES" -> <<ImpSym>>
    [] kind = "IFF" -> <<IffSym>>
    [] kind = "XOR" -> <<XorSym>>
    [] kind = "NAND" -> <<"N","A","N","D">>
    [] kind = "NOR" -> <<"N","O","R">>

Designated(kind, left, right) ==
  CASE kind = "AND" -> left /\ right
    [] kind = "OR" -> left \/ right
    [] kind = "IMPLIES" -> ~left \/ right
    [] kind = "IFF" -> (left <=> right)
    [] kind = "XOR" -> ~(left <=> right)
    [] kind = "NAND" -> ~(left /\ right)
    [] kind = "NOR" -> ~(left \/ right)

(* the text 'A <spelling> B' *)
AopB(spelling) == <<"A", " ">> \o spelling \o <<" ", "B">>

(* the words of a text: the maximal runs without a space *)
RECURSIVE WordsFrom(_, _)
WordsFrom(s, word) ==
  IF s = <<>> THEN (IF word = <<>> THEN <<>> ELSE <<word>>)
  ELSE IF Head(s) = " "
    THEN (IF word = <<>> THEN <<>> ELSE <<word>>) \o WordsFrom(Tail(s), <<>>)
    ELSE WordsFrom(Tail(s), Append(word, Head(s)))

Words(text) == WordsFrom(text, <<>>)

IsOperandWord(word) ==
  \/ Len(word) = 1 /\ IsUpper(word[1])
  \/ Len(word) = 2 /\ word[1] = NotSym /\ IsUpper(word[2])

(* a chain: operand words at the odd places, binary operators of ops between them *)
IsChainOver(words, ops) ==
  /\ Len(words) % 2 = 1
  /\ \A i \in DOMAIN words :
       IF i % 2 = 1 THEN IsOperandWord(words[i]) ELSE words[i] \in ops

OperandValue(word, values) ==
  IF Len(word) = 1 THEN values[word[1]] ELSE ~values[word[2]]

(* the value of the chain words[lo..hi] when operators bind by the tiers of
   tier (a higher tier binds tighter) and operators of one tier group to the
   left: the chain splits at the rightmost operator of the lowest tier *)
RECURSIVE ChainValue(_, _, _, _, _)
ChainValue(words, lo, hi, tier, values) ==
  IF lo = hi THEN OperandValue(words[lo], values)
  ELSE LET places == { j \in lo..hi : j % 2 = 0 }
           lowest == CHOOSE t \in { tier[words[j]] : j \in places } :
                       \A j \in places : t <= tier[words[j]]
           split  == CHOOSE j \in places :
                       /\ tier[words[j]] = lowest
                       /\ \A l \in places : tier[words[l]] = lowest => l <= j
       IN  Designated(KindOf(words[split]),
                      ChainValue(words, lo, split - 1, tier, values),
                      ChainValue(words, split + 1, hi, tier, values))

---------------------------------------------------------------------------
(* C1: for every text on which validate_expression returns valid and every
   assignment of its variables, evaluate_expression returns a boolean and
   raises nothing. *)
C1_ValidatedTextEvaluates ==
  (pc = "evaluated" /\ validate_expression(expression).is_valid)
    => evaluation.kind = "value"

(* the readings of a text that the properties of the validator speak of *)
IsBinaryOperatorToken(token) == upper(token) \in BinarySpellings

PassesChecks1to3(text) ==
  /\ strip(text) # <<>>
  /\ check_balanced_parentheses(strip(text))
  /\ find_invalid_characters(strip(text)) = {}

BinaryAtEnds(text) ==
  LET tokens == tokenize(strip(text)) IN
  /\ tokens # <<>>
  /\ IsBinaryOperatorToken(tokens[1]) \/ IsBinaryOperatorToken(tokens[Len(tokens)])

(* C2: validate_expression gives the reason 'binary operator at invalid
   position' exactly when the text passes the empty, balance and character
   checks and its first or last token is a binary operator; a parenthesis is
   not a binary operator. *)
C2_BinaryReasonIffBinaryAtEnds ==
  pc = "validated" =>
    ( validation.message = "Binary operator at invalid position"
        <=> (PassesChecks1to3(expression) /\ BinaryAtEnds(expression)) )

(* C3: for every binary operator kind, evaluate_expression on 'A op B' returns
   the designated truth function of the values of A (left) and B (right). *)
C3_TruthFunctions ==
  pc = "evaluated" =>
    \A op \in CanonicalBinary :
      expression = AopB(op) =>
        evaluation = Value(Designated(KindOf(op), variable_values["A"], variable_values["B"]))

(* C3 witness: 'A -> B' (with the arrow symbol) evaluated with A true and B
   false gave false. *)
C3_Witness ==
  /\ pc = "evaluated"
  /\ expression = AopB(<<ImpSym>>)
  /\ variable_values["A"] /\ ~variable_values["B"]
  /\ evaluation = Value(FALSE)

---------------------------------------------------------------------------
(* the two texts of the binding tiers and the tiers themselves *)

AvBaC == <<"A", " ", OrSym, " ", "B", " ", AndSym, " ", "C">>
AvBxC == <<"A", " ", OrSym, " ", "B", " ", XorSym, " ", "C">>

(* the tiers as the claim states them: AND, XOR and NAND above OR, IMPLIES
   and IFF lowest (it names no tier for NOR) *)
ClaimedTier ==
  [op \in CanonicalBinary \ { <<"N","O","R">> } |->
     CASE op \in { <<AndSym>>, <<XorSym>>, <<"N","A","N","D">> } -> 3
       [] op = <<OrSym>> -> 2
       [] op \in { <<ImpSym>>, <<IffSym>> } -> 1]

(* the tiers as amended: AND and NAND above OR, XOR and NOR, IMPLIES and IFF
   lowest *)
AmendedTier ==
  [op \in CanonicalBinary |->
     CASE op \in { <<AndSym>>, <<"N","A","N","D">> } -> 3
       [] op \in { <<OrSym>>, <<XorSym>>, <<"N","O","R">> } -> 2
       [] op \in { <<ImpSym>>, <<IffSym>> } -> 1]

(* C4 as stated: NOT binds tightest, then AND, XOR and NAND, then OR, then
   IMPLIES and IFF; so 'A or B and C' is A or (B and C) and 'A or B xor C' is
   A or (B xor C). *)
C4_ClaimedTiers ==
  pc = "evaluated" =>
    /\ IsChainOver(Words(expression), DOMAIN ClaimedTier) =>
         evaluation = Value(ChainValue(Words(expression), 1, Len(Words(expression)),
                                       ClaimedTier, variable_values))
    /\ expression = AvBxC =>
         evaluation = Value(variable_values["A"]
                              \/ (variable_values["B"] # variable_values["C"]))

(* C4 amended: NOT binds tightest, then AND and NAND share a tier, then OR,
   XOR and NOR share a lower tier, then IMPLIES and IFF lowest, operators of
   one tier grouping to the left; so 'A or B and C' is A or (B and C) and
   'A or B xor C' is (A or B) xor C. *)
C4_AmendedTiers ==
  pc = "evaluated" =>
    /\ IsChainOver(Words(expression), CanonicalBinary) =>
         evaluation = Value(ChainValue(Words(expression), 1, Len(Words(expression)),
                                       AmendedTier, variable_values))
    /\ expression = AvBaC =>
         evaluation = Value(variable_values["A"]
                              \/ (variable_values["B"] /\ variable_values["C"]))
    /\ expression = AvBxC =>
         evaluation = Value((variable_values["A"] \/ variable_values["B"])
                              # variable_values["C"])

(* C4 witness: 'A or B xor C' evaluated with A and C true gave false, the
   value of (A or B) xor C and not of A or (B xor C). *)
C4_Witness ==
  /\ pc = "evaluated"
  /\ expression = AvBxC
  /\ variable_values["A"] /\ variable_values["C"]
  /\ evaluation = Value(FALSE)

---------------------------------------------------------------------------
(* C5: every spelling of a binary operator in the parser's operator set is
   tokenized to an operator token: 'A <spelling> B' yields three tokens and
   evaluates as the text with the canonical symbol of that kind. *)
C5_SpellingsEquivalent ==
  pc = "evaluated" =>
    \A spelling \in BinarySpellings :
      expression = AopB(spelling) =>
        /\ Len(tokenize(expression)) = 3
        /\ evaluation = evaluate_expression(AopB(CanonicalOf(KindOf(spelling))),
                                            variable_values)

(* C6: '<->' and '<=>' become one IFF token each, so 'A <-> B' and 'A <=> B'
   evaluate to (A = B) under all four assignments. *)
C6_LongestSpellingFirst ==
  (pc = "evaluated" /\ expression \in { AopB(<<"<","-",">">>), AopB(<<"<","=",">">>) })
    => evaluation = Value(variable_values["A"] <=> variable_values["B"])

IsUnknownToken(token) ==
  /\ Len(token) > 1
  /\ \A i \in DOMAIN token : IsAlnum(token[i])
  /\ upper(token) \notin operators
  /\ upper(token) \notin { <<"T","R","U","E">>, <<"F","A","L","S","E">> }

HasUnknownToken(text) ==
  \E i \in DOMAIN tokenize(strip(text)) : IsUnknownToken(tokenize(strip(text))[i])

UnaryAtEnd(text) ==
  LET tokens == tokenize(strip(text)) IN
  tokens # <<>> /\ tokens[Len(tokens)] \in NegationOps

(* C7: a text that passes checks 1 to 5 and holds a multi-character
   alphanumeric token that is neither an operator keyword nor a constant
   literal is rejected with the unknown-token reason. *)
C7_UnknownTokenRejected ==
  ( /\ pc = "validated"
    /\ PassesChecks1to3(expression)
    /\ ~check_operator_placement(strip(expression)).error
    /\ HasUnknownToken(expression) )
    => ( ~validation.is_valid
         /\ validation.message = "Invalid variable/operator name" )

Violated(text) ==
  << strip(text) = <<>>,
     ~check_balanced_parentheses(strip(text)),
     find_invalid_characters(strip(text)) # {},
     BinaryAtEnds(text),
     UnaryAtEnd(text),
     HasUnknownToken(text) >>

Reasons ==
  << "Expression cannot be empty", "Unbalanced parentheses", "Invalid characters",
     "Binary operator at invalid position", "Unary operator at end of expression",
     "Invalid variable/operator name" >>

(* C8: the checks apply in the order empty, balance, characters, binary
   operator at an end, unary NOT at the end, unknown token; a text that
   violates several of them gets the reason of the earliest one. *)
C8_EarliestReason ==
  pc = "validated" =>
    LET broken == { k \in 1..6 : Violated(expression)[k] } IN
    Cardinality(broken) >= 2 =>
      validation.message = Reasons[CHOOSE k \in broken : \A l \in broken : k <= l]

(* C9: on any text, valid or not, evaluate_expression returns a boolean or
   fails with one of its three errors: missing operand for negation, missing
   operands for an operator, other than one value left on the stack. *)
C9_OnlyEvaluationErrors ==
  pc = "evaluated" =>
    \/ evaluation.kind = "value" /\ evaluation.value \in BOOLEAN
    \/ /\ evaluation.kind = "ValueError"
       /\ evaluation.message \in { "missing operand for negation",
                                   "missing operands for operator",
                                   "too many operands" }

---------------------------------------------------------------------------
(* C10: a truth table of a text with n distinct variables has 2^n rows (one
   row without variable columns when n = 0), each row assigns every variable,
   no two rows assign alike, and the summary's true and false counts add up
   to its total, 2^n. *)
C10_TableSize ==
  (pc \in { "generated", "summarised" } /\ table.kind = "table") =>
    LET names == extract_variables(expression)
        rows  == table.table_data
    IN  /\ Len(rows) = 2 ^ Cardinality(names)
        /\ \A i \in DOMAIN rows :
             /\ DOMAIN rows[i] = names \cup { "result" }
             /\ \A name \in DOMAIN rows[i] : rows[i][name] \in BOOLEAN
        /\ \A i, j \in DOMAIN rows :
             i # j => \E name \in names : rows[i][name] # rows[j][name]
        /\ pc = "summarised" =>
             /\ summary.true_count + summary.false_count = summary.total_rows
             /\ summary.total_rows = 2 ^ Cardinality(names)
             /\ summary.true_count \in 0..summary.total_rows

(* C10 witness: the table of a text with three variables was summarised and
   counts eight rows. *)
C10_Witness ==
  /\ pc = "summarised"
  /\ Cardinality(extract_variables(expression)) = 3
  /\ Len(table.table_data) = 8
  /\ summary.total_rows = 8

---------------------------------------------------------------------------
(* the place of an upper-case letter in the alphabet *)
LetterIndex(c) == CHOOSE i \in DOMAIN UpperLetters : UpperLetters[i] = c

(* bit j (1 = most significant) of the n-bit binary numeral of i *)
BitFromMostSignificant(i, j, n) == (i \div (2 ^ (n - j))) % 2 = 1

(* C11: the rows of a generated table come in binary-counting order over the
   variables in ascending alphabet order: the variables column list is
   strictly ascending, row i (counted from 0) gives the variable at position
   j the bit j of i counted from the most significant end (false for 0, true
   for 1), and the row's result is evaluate_expression on that assignment. *)
C11_BinaryCountingOrder ==
  (pc \in { "generated", "summarised" } /\ table.kind = "table") =>
    LET variables == table.variables
        rows      == table.table_data
        n         == Len(variables)
    IN  /\ Range(variables) = extract_variables(expression)
        /\ \A j \in 1..(n - 1) :
             LetterIndex(variables[j]) < LetterIndex(variables[j + 1])
        /\ \A i \in DOMAIN rows :
             LET assignment == [name \in Range(variables) |-> rows[i][name]] IN
             /\ \A j \in 1..n :
                  rows[i][variables[j]] = BitFromMostSignificant(i - 1, j, n)
             /\ evaluate_expression(expression, assignment)
                  = Value(rows[i]["result"])

(* C11 witness: the table of 'A XOR B' holds the rows (F,F)->F, (F,T)->T,
   (T,F)->T, (T,T)->F in that order. *)
C11_Witness ==
  /\ pc = "generated"
  /\ expression = AopB(<<"X","O","R">>)
  /\ table.kind = "table"
  /\ table.variables = <<"A", "B">>
  /\ table.table_data =
       << [A |-> FALSE, B |-> FALSE, result |-> FALSE],
          [A |-> FALSE, B |-> TRUE,  result |-> TRUE],
          [A |-> TRUE,  B |-> FALSE, result |-> TRUE],
          [A |-> TRUE,  B |-> TRUE,  result |-> FALSE] >>

---------------------------------------------------------------------------
(* C12: in the summary of a table exactly one of is_tautology,
   is_contradiction and is_contingency is true; is_tautology holds exactly
   when evaluate_expression gives true under every assignment of the text's
   variables, is_contradiction exactly when it gives false under every one. *)
C12_ClassificationExclusive ==
  pc = "summarised" =>
    LET assignments == [extract_variables(expression) -> BOOLEAN] IN
    /\ Cardinality({ flag \in { "is_tautology", "is_contradiction", "is_contingency" } :
                       summary[flag] }) = 1
    /\ summary.is_tautology <=>
         \A values \in assignments :
           evaluate_expression(expression, values) = Value(TRUE)
    /\ summary.is_contradiction <=>
         \A values \in assignments :
           evaluate_expression(expression, values) = Value(FALSE)

(* C12 witness: the table of a text with a variable that is true under every
   assignment was summarised as a tautology and as nothing else. *)
C12_Witness ==
  /\ pc = "summarised"
  /\ extract_variables(expression) # {}
  /\ summary.is_tautology
  /\ ~summary.is_contradiction
  /\ ~summary.is_contingency

---------------------------------------------------------------------------
(* the results of evaluate_expression under all assignments of the text's
   variables *)
Evaluations(text) ==
  { evaluate_expression(text, values) : values \in [extract_variables(text) -> BOOLEAN] }

(* C13: generate_truth_table fails with the validator's reason, whatever
   evaluation would have given, exactly when validate_expression rejects the
   text; when the text is accepted and evaluation fails under some assignment
   the call fails with an evaluation error and returns no rows; otherwise it
   returns a table. *)
C13_FailureReasons ==
  pc = "generated" =>
    LET checked == validate_expression(expression) IN
    /\ ~checked.is_valid =>
         table = [kind |-> "ValueError", message |-> "Invalid expression",
                  cause |-> checked.message]
    /\ (table.kind = "ValueError" /\ table.message = "Invalid expression")
         => ~checked.is_valid
    /\ (checked.is_valid /\ \E result \in Evaluations(expression) : result.kind # "value") =>
         /\ table.kind = "ValueError"
         /\ table.message \in { "Error evaluating expression",
                                "Error evaluating constant expression" }
         /\ "table_data" \notin DOMAIN table
    /\ (checked.is_valid /\ \A result \in Evaluations(expression) : result.kind = "value") =>
         table.kind = "table"

(* C13 witness: a text the validator accepts whose evaluation fails was
   handed to generate_truth_table, which failed with an evaluation error. *)
C13_Witness ==
  /\ pc = "generated"
  /\ validate_expression(expression).is_valid
  /\ extract_variables(expression) # {}
  /\ table.kind = "ValueError"
  /\ table.message = "Error evaluating expression"

(* a rejected text was handed to generate_truth_table although evaluating it
   would have given a value *)
C13_RejectedReached ==
  /\ pc = "generated"
  /\ ~validate_expression(expression).is_valid
  /\ \A result \in Evaluations(expression) : result.kind = "value"
  /\ table.message = "Invalid expression"

---------------------------------------------------------------------------
(* evaluate_expression called with any dictionary as the assignment *)

(* constant expressions with their logical values: the literals, negated
   literals, one binary operator between two of these, and one level of
   parentheses *)
Atoms ==
  { [text |-> <<"0">>, value |-> FALSE], [text |-> <<"1">>, value |-> TRUE] }

Negated(forms) ==
  { [text |-> <<NotSym>> \o x.text, value |-> ~x.value] : x \in forms }

Parenthesised(forms) ==
  { [text |-> <<"(">> \o x.text \o <<")">>, value |-> x.value] : x \in forms }

Joined(lefts, rights) ==
  { [text  |-> x.text \o <<" ">> \o op \o <<" ">> \o y.text,
     value |-> Designated(KindOf(op), x.value, y.value)] :
      x \in lefts, y \in rights, op \in CanonicalBinary }

ConstantForms ==
  LET literals == Atoms \cup Negated(Atoms)
      inner    == Parenthesised(Joined(Atoms, Atoms))
  IN  literals \cup Joined(literals, literals) \cup Joined(inner, Atoms)
        \cup Joined(Atoms, inner) \cup Negated(inner)

ConstantTexts == { form.text : form \in ConstantForms }

AssignTexts == ConstantTexts \cup Pairs \cup Negations

(* the keys a caller's dictionary may hold: names of variables and the text
   of a literal *)
AssignmentKeys == { "A", "B", "1" }

InitAssign == InitWith(AssignTexts)

(* parser.evaluate_expression(expression, values) for any dictionary values *)
EvaluateWithAssignment ==
  /\ pc = "ready"
  /\ \E names \in SUBSET AssignmentKeys :
       \E values \in [names -> BOOLEAN] :
         /\ variable_values' = values
         /\ evaluation' = evaluate_expression(expression, values)
  /\ pc' = "evaluated"
  /\ UNCHANGED <<expression, validation, table, summary>>
  /\ UNCHANGED <<current_expr, steps, changed, iteration>>

NextAssign ==
  \/ ValidateExpression
  \/ EvaluateWithAssignment
  \/ GenerateTruthTable
  \/ GetTruthTableSummary

SpecAssign == InitAssign /\ [][NextAssign]_vars

---------------------------------------------------------------------------
(* C14: on a constant expression evaluate_expression returns, whatever the
   assignment holds (even a value under the key '1'), the logical value of
   the expression with 1 read as true and 0 as false; so it returns the same
   value for any two assignments. *)
C14_ConstantsIgnoreAssignment ==
  pc = "evaluated" =>
    \A form \in ConstantForms :
      form.text = expression =>
        /\ evaluation = Value(form.value)
        /\ evaluation = evaluate_expression(expression, <<>>)

(* C14 witness: '(0 NOR 0) u2227 1' was evaluated to true under an assignment
   that maps '1' and 'A' to false. *)
C14_Witness ==
  /\ pc = "evaluated"
  /\ expression = <<"(", "0", " ", "N", "O", "R", " ", "0", ")", " ", AndSym, " ", "1">>
  /\ DOMAIN variable_values = { "1", "A" }
  /\ variable_values["1"] = FALSE
  /\ variable_values["A"] = FALSE
  /\ evaluation = Value(TRUE)

---------------------------------------------------------------------------
(* the total assignment that extends values by false on the unmapped
   variables of the text *)
ExtendedByFalse(text, values) ==
  [name \in extract_variables(text) \cup DOMAIN values |->
     IF name \in DOMAIN values THEN values[name] ELSE FALSE]

(* C15: evaluate_expression under an assignment that leaves variables of the
   text unmapped returns what it returns under the assignment extended by
   false on those variables; it fails only where the extended one fails. *)
C15_UnmappedIsFalse ==
  pc = "evaluated" =>
    evaluation = evaluate_expression(expression, ExtendedByFalse(expression, variable_values))

(* C15 witness: 'A NOR B' was evaluated to true under an assignment that
   maps neither A nor B. *)
C15_Witness ==
  /\ pc = "evaluated"
  /\ expression = AopB(<<"N","O","R">>)
  /\ DOMAIN variable_values \cap extract_variables(expression) = {}
  /\ evaluation = Value(TRUE)

---------------------------------------------------------------------------
(* the letters that stand alone in a text, in upper case: a letter with no
   letter or digit next to it *)
StandAloneLetters(text) ==
  { UpperChar(text[i]) :
      i \in { j \in DOMAIN text :
                /\ IsLower(text[j]) \/ IsUpper(text[j])
                /\ j = 1 \/ ~IsAlnum(text[j - 1])
                /\ j = Len(text) \/ ~IsAlnum(text[j + 1]) } }

(* C16: extract_variables returns exactly the letters that stand alone in the
   text, in upper case, so no letter met only inside a keyword or a longer
   word and no constant; sorted, the names are strictly ascending; the names
   of a generated table and of an evaluation's assignment are these.
   '(A u2227 B) u2228 u00ACC' gives A, B, C. *)
C16_VariablesAreStandAloneLetters ==
  /\ extract_variables(expression) = StandAloneLetters(expression)
  /\ extract_variables(expression) \subseteq Range(UpperLetters)
  /\ LET names == sorted(extract_variables(expression)) IN
     /\ Range(names) = extract_variables(expression)
     /\ \A j \in 1..(Len(names) - 1) : LetterIndex(names[j]) < LetterIndex(names[j + 1])
  /\ (pc \in { "generated", "summarised" } /\ table.kind = "table") =>
       table.variables = sorted(StandAloneLetters(expression))
  /\ pc = "evaluated" => DOMAIN variable_values = StandAloneLetters(expression)
  /\ sorted(extract_variables(<<"(", "A", " ", AndSym, " ", "B", ")", " ", OrSym, " ",
                                NotSym, "C">>)) = <<"A", "B", "C">>

(* C16 witness: the table of 'B XOR a' has the columns A, B: the lower-case
   a counts as A, the names come sorted, and no letter of XOR is a name. *)
C16_Witness ==
  /\ pc = "generated"
  /\ expression = <<"B", " ", "X", "O", "R", " ", "a">>
  /\ table.kind = "table"
  /\ table.variables = <<"A", "B">>

---------------------------------------------------------------------------
(* ExpressionSimplifier.simplify, one action per part: the statements before
   the loop, one turn of the loop, the statements after it.  pc is
   "simplifying" from the first part to the last; in a second call, made on
   the text the first call returned, it is "resimplifying". *)

(* 'A u2227 1 u2227 1 ...' with k times 'u2227 1' *)
RECURSIVE Tailed(_)
Tailed(k) == IF k = 0 THEN <<"A">> ELSE Tailed(k - 1) \o <<" ", AndSym, " ", "1">>

(* texts long enough to keep the loop turning up to its cap and beyond, in
   a first call and in a second call on the result of the first *)
Tails == { Tailed(k) : k \in 1..(2 * max_iterations + 3) }

(* the patterns of the rules as texts, bare and in parentheses *)
RuleTexts ==
  { rules[i][1] : i \in DOMAIN rules }
    \cup { <<"(">> \o rules[i][1] \o <<")">> : i \in DOMAIN rules }

SimplifyTexts == Chains \cup Pairs \cup Negations \cup RuleTexts \cup Tails

InitSimplify == InitWith(SimplifyTexts)

(* steps = []; current_expr = normalize(expression); steps.append(Original);
   changed = True; iteration = 0 *)
SimplifyBegin ==
  /\ pc = "ready"
  /\ current_expr' = normalize_expression(expression)
  /\ steps' = << Step("Original", <<>>, <<>>, current_expr') >>
  /\ changed' = TRUE
  /\ iteration' = 0
  /\ pc' = "simplifying"
  /\ UNCHANGED <<expression, validation, variable_values, evaluation, table, summary>>

(* one turn of the while loop: the first rule that changes the expression is
   applied, then redundant parentheses are removed *)
SimplifyIterate ==
  /\ pc \in { "simplifying", "resimplifying" }
  /\ loop_continues(changed, iteration)
  /\ LET turn == loop_turn(current_expr, steps)
     IN  /\ current_expr' = turn.current_expr
         /\ steps' = turn.steps
         /\ changed' = turn.changed
  /\ iteration' = iteration + 1
  /\ UNCHANGED <<expression, pc, validation, variable_values, evaluation, table, summary>>

(* after the loop: final cleanup, and the return of current_expr and steps *)
SimplifyEnd ==
  /\ pc \in { "simplifying", "resimplifying" }
  /\ ~loop_continues(changed, iteration)
  /\ LET final_expr == cleanup_expression(current_expr)
     IN  /\ current_expr' = final_expr
         /\ steps' = IF final_expr # current_expr
                       THEN Append(steps, Step("Final cleanup", <<>>, <<>>, final_expr))
                       ELSE steps
  /\ pc' = IF pc = "simplifying" THEN "simplified" ELSE "resimplified"
  /\ UNCHANGED <<expression, validation, variable_values, evaluation, table, summary,
                 changed, iteration>>

(* simplify called again, on the text the first call returned: expression
   becomes that text and the statements before the loop run on it *)
SimplifyAgain ==
  /\ pc = "simplified"
  /\ expression' = current_expr
  /\ current_expr' = normalize_expression(current_expr)
  /\ steps' = << Step("Original", <<>>, <<>>, current_expr') >>
  /\ changed' = TRUE
  /\ iteration' = 0
  /\ pc' = "resimplifying"
  /\ UNCHANGED <<validation, variable_values, evaluation, table, summary>>

NextSimplify ==
  \/ SimplifyBegin
  \/ SimplifyIterate
  \/ SimplifyEnd
  \/ SimplifyAgain

SpecSimplify == InitSimplify /\ [][NextSimplify]_vars

---------------------------------------------------------------------------
(* the places of the rule applications in the steps list *)
Applications == { i \in DOMAIN steps : steps[i].entry = "Applied" }

(* C17: a rule is applied only to a current expression that equals the
   rule's pattern as a whole text: the entry before each rule application
   shows the pattern itself, so a pattern met only as a proper part of the
   expression leads to no application. *)
C17_RuleFiresOnWholeTextOnly ==
  \A i \in Applications : steps[i - 1].expr = steps[i].pattern

---------------------------------------------------------------------------
(* no rule of the list changes the text and parenthesis removal does not *)
Fixpoint(text) ==
  /\ \A i \in DOMAIN rules : apply_rule(text, rules[i][1], rules[i][2]) = text
  /\ remove_redundant_parentheses(text) = text

(* C18: the loop of simplify turns at most max_iterations = 20 times, each
   turn adds at most one rule application and one parenthesis removal to the
   trace, so the trace holds at most 20 rule applications; when the loop is
   left after a turn without change, the expression is a fixpoint. *)
C18_LoopBoundedAndFixpoint ==
  /\ iteration \in 0..20
  /\ Cardinality(Applications) <= iteration
  /\ Len(steps) <= 2 * iteration + 2
  /\ (pc = "simplifying" /\ ~changed) => Fixpoint(current_expr)
  /\ pc = "simplified" => (changed => iteration = 20)

(* C18 witness: simplify returned after the twentieth turn of the loop had
   still changed the expression, with twenty rule applications in the trace. *)
C18_Witness ==
  /\ pc = "simplified"
  /\ iteration = 20
  /\ changed
  /\ Cardinality(Applications) = 20
  /\ ~Fixpoint(current_expr)

(* the loop was left before the cap, at a fixpoint, after rules had fired *)
C18_FixpointReached ==
  /\ pc = "simplifying"
  /\ ~changed
  /\ iteration \in 3..19
  /\ Cardinality(Applications) >= 2
  /\ Fixpoint(current_expr)

---------------------------------------------------------------------------
(* C19: simplify on a text that normalizes to 'A u2227 1' returns 'A' with a
   trace of the Original entry and exactly one rule application, that of the
   identity law 'A u2227 1' to 'A'; on a text that normalizes to 'A u2227 A'
   it returns 'A'. *)
C19_IdentityAndIdempotence ==
  pc = "simplified" =>
    /\ normalize_expression(expression) = <<"A", " ", AndSym, " ", "1">> =>
         /\ current_expr = <<"A">>
         /\ steps = << Step("Original", <<>>, <<>>, <<"A", " ", AndSym, " ", "1">>),
                       Step("Applied", <<"A", " ", AndSym, " ", "1">>, <<"A">>, <<"A">>) >>
    /\ normalize_expression(expression) = <<"A", " ", AndSym, " ", "A">> =>
         current_expr = <<"A">>

(* C19 witness: simplify on 'a&&1' returned 'A' after one rule application. *)
C19_Witness ==
  /\ pc = "simplified"
  /\ expression = <<"a", "&", "&", "1">>
  /\ current_expr = <<"A">>
  /\ Len(steps) = 2
  /\ steps[2].entry = "Applied"

---------------------------------------------------------------------------
(* spellings that are words need a space on each side *)
IsWordSpelling(spelling) == \A i \in DOMAIN spelling : IsUpper(spelling[i])

(* C20: a text 'X spelling Y', whatever the spelling of the binary operator,
   the case of the operands and the spaces around a symbol, normalizes to
   'X canonical Y' with X and Y in upper case, the canonical symbol of the
   operator's kind and one space on each side of it. *)
C20_SpellingsNormalizeAlike ==
  pc # "ready" =>
    \A x \in PairOperands, y \in PairOperands, spelling \in BinarySpellings,
       sep \in { <<>>, <<" ">> } :
      (/\ expression = x \o sep \o spelling \o sep \o y
       /\ IsWordSpelling(spelling) => sep = <<" ">>)
        => steps[1].expr = upper(x) \o <<" ">> \o CanonicalOf(KindOf(spelling))
                             \o <<" ">> \o upper(y)

---------------------------------------------------------------------------
(* the places of the parenthesis removals in the steps list *)
Removals == { i \in DOMAIN steps : steps[i].entry = "Removed redundant parentheses" }

(* C21 as claimed: simplify called on the text y that simplify returned
   either returns y with no rule application and no parenthesis removal in
   its trace, or leaves its loop after a turn that changed nothing. *)
C21_RerunConverges ==
  pc = "resimplified" =>
    \/ current_expr = expression /\ Applications = {} /\ Removals = {}
    \/ ~changed

(* C21 amended: simplify called on the text that simplify returned runs
   at most 20 turns of its loop, and either leaves the loop after a turn
   that changed nothing, or stops at the cap after 20 turns each of which
   changed the text. *)
C21_RerunConvergesUnlessCapped ==
  pc = "resimplified" =>
    /\ iteration \in 1..20
    /\ \/ ~changed
       \/ iteration = 20 /\ Cardinality(Applications \cup Removals) >= 20

(* C21 witness: the second call stopped at the cap with its twentieth turn
   still changing the text, after twenty rule applications. *)
C21_Witness ==
  /\ pc = "resimplified"
  /\ changed
  /\ iteration = 20
  /\ Cardinality(Applications) = 20
  /\ current_expr # expression

(* a second call on the result of a converged first returned a text that
   differs from its input, without any rule application *)
C21_RerunRespaced ==
  /\ pc = "resimplified"
  /\ ~changed
  /\ Applications = {}
  /\ current_expr # expression

---------------------------------------------------------------------------
(* a chain of k NOT symbols *)
NotChain(k) == [i \in 1..k |-> NotSym]

(* the operands a chain of NOT symbols is written in front of *)
ChainOperands == { <<"A">>, <<"(", "A", ")">> }

(* C22: for a text of k >= 1 NOT symbols followed by an operand X, the
   postfix form is X's postfix followed by the k NOT tokens, and the text
   evaluates to the value of X negated k times; in particular a double
   negation of A evaluates to A. *)
C22_NotChainNegatesOperand ==
  pc = "evaluated" =>
    \A k \in 1..MaxLen, X \in ChainOperands :
      expression = NotChain(k) \o X =>
        LET x == evaluate_expression(X, variable_values) IN
        /\ to_postfix(expression).output
             = to_postfix(X).output \o [i \in 1..k |-> <<NotSym>>]
        /\ x.kind = "value"
        /\ evaluation = Value(IF k % 2 = 0 THEN x.value ELSE ~x.value)

---------------------------------------------------------------------------
(* the text validates and evaluates to a boolean under every assignment of
   its variables *)
ValidatesAndEvaluates(text) ==
  /\ validate_expression(text).is_valid
  /\ \A e \in Evaluations(text) : e.kind = "value"

(* the text evaluates like the input text under every assignment of the
   input's variables *)
MeansTheInput(text) ==
  \A values \in [extract_variables(expression) -> BOOLEAN] :
    evaluate_expression(text, values) = evaluate_expression(expression, values)

(* C23: for an input text that validates and evaluates, the expression of
   every trace entry and the final text of simplify evaluate, under every
   assignment of the input's variables, to the same boolean as the input
   text. *)
C23_SimplifyPreservesMeaning ==
  (pc # "ready" /\ ValidatesAndEvaluates(expression)) =>
    /\ \A i \in DOMAIN steps : MeansTheInput(steps[i].expr)
    /\ pc \in { "simplified", "resimplified" } => MeansTheInput(current_expr)

=============================================================================
